---- MODULE Spec2Model ----
(***************************************************************************)
(* WhatsApp chat analyser: the chat-log parser (app.py, preprocess) and    *)
(* the aggregate functions of helper.py over the parsed records.           *)
(*                                                                         *)
(* Text is a sequence of one-character strings, so that the regular        *)
(* expressions, strptime and the string methods of the code act on         *)
(* characters as they do in Python.                                        *)
(***************************************************************************)
EXTENDS Integers, Sequences, FiniteSets, TLC

VARIABLES data, stop_file, pc, failed, df, diagnostics, user_list,
          selected_user, stats, busy_day, user_heatmap, wc_text,
          most_common_df, partA, partB, dfA, dfB, dfAB

vars == <<data, stop_file, pc, failed, df, diagnostics, user_list,
          selected_user, stats, busy_day, user_heatmap, wc_text,
          most_common_df, partA, partB, dfA, dfB, dfAB>>

(***************************************************************************)
(* Characters and character classes of Python's re module.                 *)
(***************************************************************************)
Digits == {"0","1","2","3","4","5","6","7","8","9"}

\* \s
Space == {" ", "\n", "\t"}

UpperChars == <<"A","B","C","D","E","F","G","H","I","J","K","L","M",
                "N","O","P","Q","R","S","T","U","V","W","X","Y","Z">>

LowerChars == <<"a","b","c","d","e","f","g","h","i","j","k","l","m",
                "n","o","p","q","r","s","t","u","v","w","x","y","z">>

Letters == {UpperChars[i] : i \in 1..26} \cup {LowerChars[i] : i \in 1..26}

\* \w
WordChars == Letters \cup Digits \cup {"_"}

\* the characters of the modelled texts in code-point order (str comparison)
CodeOrder == <<"\t", "\n", " ", "!", "-", ".", "/">>
             \o <<"0","1","2","3","4","5","6","7","8","9">>
             \o <<":", "<", ">">> \o UpperChars \o <<"_">> \o LowerChars

Ord(c) == CHOOSE i \in 1..Len(CodeOrder) : CodeOrder[i] = c

\* str.lower() on one character
LowerChar(c) ==
    IF \E i \in 1..26 : UpperChars[i] = c
    THEN LowerChars[CHOOSE i \in 1..26 : UpperChars[i] = c]
    ELSE c

lower(s) == [i \in 1..Len(s) |-> LowerChar(s[i])]

DigitVal(c) == Ord(c) - Ord("0")

\* int() of the digits s[p..p+n-1]
RECURSIVE IntOf(_, _, _)
IntOf(s, p, n) ==
    IF n = 0 THEN 0 ELSE IntOf(s, p, n - 1) * 10 + DigitVal(s[p + n - 1])

Slice(s, a, b) == IF a > b THEN <<>> ELSE SubSeq(s, a, b)

Min(S) == CHOOSE x \in S : \A y \in S : x <= y
Max(S) == CHOOSE x \in S : \A y \in S : x >= y

(***************************************************************************)
(* Regular-expression steps: a set of positions (index of the next         *)
(* character to read) advanced over one character class.                   *)
(***************************************************************************)
Step(s, P, cls) == {p + 1 : p \in {q \in P : q <= Len(s) /\ s[q] \in cls}}

RECURSIVE Times(_, _, _, _)
Times(s, P, cls, n) ==
    IF n = 0 \/ P = {} THEN P ELSE Times(s, Step(s, P, cls), cls, n - 1)

\* cls{lo,hi}
Between(s, P, cls, lo, hi) == UNION {Times(s, P, cls, n) : n \in lo..hi}

\* pattern = r'\d{1,2}/\d{1,2}/\d{2,4},\s\d{1,2}:\d{2}(?:\s?[APap][Mm])?\s-\s'
\* ... (?:\s?[APap][Mm])?\s-\s  after the minutes
TimestampTail(s, minute) ==
    Step(s, Step(s, Step(s, minute \cup Step(s, Step(s, Between(s, minute, Space, 0, 1),
                                                     {"A","P","a","p"}), {"M","m"}),
                         Space), {"-"}), Space)

\* \d{1,2}/\d{1,2}/\d{2,4},\s\d{1,2}:\d{2} ...  from p: the positions a match can end at
TimestampEnds(s, p) ==
    LET day    == Step(s, Between(s, {p}, Digits, 1, 2), {"/"})
        month  == Step(s, Between(s, day, Digits, 1, 2), {"/"})
        year   == Step(s, Between(s, month, Digits, 2, 4), {","})
        hour   == Step(s, Between(s, Step(s, year, Space), Digits, 1, 2), {":"})
    IN  TimestampTail(s, Times(s, hour, Digits, 2))

\* end of a match given the positions it can end at, 0 when there is none
MatchEnd(ends) == IF ends = {} THEN 0 ELSE Max(ends)

\* end of the match of pattern that starts at p, 0 when there is none
TimestampMatch(s, p) == MatchEnd(TimestampEnds(s, p))

\* the scan of re.split / re.findall: of the positions where a match begins
\* (starts), take the leftmost, then go on from the end of that match
RECURSIVE ScanTimestamps(_, _)
TakeTimestamp(s, starts, b, e) ==
    <<<<b, e>>>> \o ScanTimestamps(s, {q \in starts : q >= e})

ScanTimestamps(s, starts) ==
    IF starts = {} THEN <<>>
    ELSE TakeTimestamp(s, starts, Min(starts), TimestampMatch(s, Min(starts)))

\* the non-overlapping matches of pattern from p on, leftmost first: <<start, end>>
FindTimestamps(s, p) ==
    ScanTimestamps(s, {q \in p..Len(s) : TimestampMatch(s, q) # 0})

\* the matched substrings
Matched(s, m) == [i \in 1..Len(m) |-> Slice(s, m[i][1], m[i][2] - 1)]

\* (variant: a chunk stops one character short of the next match)
ChunksOneShort(s, m) ==
    [i \in 1..Len(m) |->
        Slice(s, m[i][2], IF i < Len(m) THEN m[i + 1][1] - 2 ELSE Len(s))]

\* the text after each match, up to the next match or the end
Chunks(s, m) ==
    [i \in 1..Len(m) |->
        Slice(s, m[i][2], IF i < Len(m) THEN m[i + 1][1] - 1 ELSE Len(s))]

\* re.findall(pattern, data)
FindallDates(s) == Matched(s, FindTimestamps(s, 1))

\* re.split(pattern, data)[1:]
SplitMessages(s) == Chunks(s, FindTimestamps(s, 1))

(***************************************************************************)
(* pd.to_datetime(date_str, format=...): the format becomes a regular      *)
(* expression (one alternation per directive, \s+ for white space), the    *)
(* whole string must match, and the fields must form a calendar date.      *)
(***************************************************************************)
\* the digit strings a numeric directive accepts at p: <<next position, value>>
NumberAlts(s, p, lens, lo, hi) ==
    {<<p + n, IntOf(s, p, n)>> : n \in
        {k \in lens : /\ p + k - 1 <= Len(s)
                      /\ \A i \in p..(p + k - 1) : s[i] \in Digits
                      /\ IntOf(s, p, k) >= lo[k]
                      /\ IntOf(s, p, k) <= hi[k]}}

\* %p: am|pm, ignoring case
AmPmAlts(s, p) ==
    IF p + 1 <= Len(s) /\ LowerChar(s[p]) \in {"a", "p"} /\ LowerChar(s[p + 1]) = "m"
    THEN {<<p + 2, LowerChar(s[p])>>}
    ELSE {}

DirectiveAlts(s, p, item) ==
    CASE item = "%d" -> NumberAlts(s, p, {1, 2}, <<1, 1>>, <<9, 31>>)
      [] item = "%m" -> NumberAlts(s, p, {1, 2}, <<1, 1>>, <<9, 12>>)
      [] item = "%y" -> NumberAlts(s, p, {2}, <<0, 0>>, <<0, 99>>)
      [] item = "%Y" -> NumberAlts(s, p, {4}, <<0, 0, 0, 0>>, <<0, 0, 0, 9999>>)
      [] item = "%H" -> NumberAlts(s, p, {1, 2}, <<0, 0>>, <<9, 23>>)
      [] item = "%I" -> NumberAlts(s, p, {1, 2}, <<1, 1>>, <<9, 12>>)
      [] item = "%M" -> NumberAlts(s, p, {1, 2}, <<0, 0>>, <<9, 59>>)
      [] item = "%p" -> AmPmAlts(s, p)
      [] item = " "  -> {<<q, 0>> : q \in Between(s, {p}, Space, 1, Len(s))}
      [] OTHER       -> {<<q, 0>> : q \in Step(s, {p}, {item})}

\* the matches of the first n items of fmt: [pos, one field per directive]
RECURSIVE FormatStates(_, _, _)
FormatStates(s, fmt, n) ==
    IF n = 0 THEN {[pos |-> 1, fields |-> [k \in {} |-> 0]]}
    ELSE {[pos |-> a[1],
           fields |-> IF fmt[n] \in {"%d", "%m", "%y", "%Y", "%H", "%I", "%M", "%p"}
                      THEN [k \in DOMAIN st.fields \cup {fmt[n]} |->
                               IF k = fmt[n] THEN a[2] ELSE st.fields[k]]
                      ELSE st.fields] :
            <<st, a>> \in
               UNION {{<<t, b>> : b \in DirectiveAlts(s, t.pos, fmt[n])} :
                         t \in FormatStates(s, fmt, n - 1)}}

IsLeap(y) == (y % 4 = 0 /\ y % 100 # 0) \/ y % 400 = 0

DaysInMonth(y, m) ==
    IF m = 2 THEN (IF IsLeap(y) THEN 29 ELSE 28)
    ELSE IF m \in {4, 6, 9, 11} THEN 30 ELSE 31

NaT == [nat |-> TRUE]

\* the Timestamp of the matched fields, NaT when they are no calendar date
FieldsToTimestamp(f) ==
    LET year  == IF "%Y" \in DOMAIN f THEN f["%Y"]
                 ELSE IF f["%y"] <= 68 THEN 2000 + f["%y"] ELSE 1900 + f["%y"]
        hour  == IF "%H" \in DOMAIN f THEN f["%H"]
                 ELSE IF f["%p"] = "a"
                      THEN (IF f["%I"] = 12 THEN 0 ELSE f["%I"])
                      ELSE (IF f["%I"] = 12 THEN 12 ELSE f["%I"] + 12)
    IN  IF year >= 1 /\ f["%d"] <= DaysInMonth(year, f["%m"])
        THEN [nat |-> FALSE, year |-> year, month |-> f["%m"], day |-> f["%d"],
              hour |-> hour, minute |-> f["%M"]]
        ELSE NaT

\* pd.to_datetime with one format; NaT stands for the ValueError it raises
FullMatch(full) ==
    IF full = {} THEN NaT ELSE FieldsToTimestamp((CHOOSE st \in full : TRUE).fields)

Strptime(s, fmt) ==
    FullMatch({st \in FormatStates(s, fmt, Len(fmt)) : st.pos = Len(s) + 1})

\* '%d/%m/%y, %I:%M %p - '
Format12y == <<"%d", "/", "%m", "/", "%y", ",", " ", "%I", ":", "%M", " ", "%p", " ", "-", " ">>
\* '%d/%m/%y, %H:%M - '
Format24y == <<"%d", "/", "%m", "/", "%y", ",", " ", "%H", ":", "%M", " ", "-", " ">>
\* '%d/%m/%Y, %I:%M %p - '
Format12Y == <<"%d", "/", "%m", "/", "%Y", ",", " ", "%I", ":", "%M", " ", "%p", " ", "-", " ">>
\* '%d/%m/%Y, %H:%M - '
Format24Y == <<"%d", "/", "%m", "/", "%Y", ",", " ", "%H", ":", "%M", " ", "-", " ">>

Formats == <<Format12y, Format24y, Format12Y, Format24Y>>

\* the nested try/except chain: the first format that parses, else NaT
RECURSIVE TryFormats(_, _)
OrNextFormat(s, k, dt) == IF dt # NaT THEN dt ELSE TryFormats(s, k + 1)

TryFormats(s, k) ==
    IF k > Len(Formats) THEN NaT ELSE OrNextFormat(s, k, Strptime(s, Formats[k]))

ParseDate(date_str) == TryFormats(date_str, 1)

(***************************************************************************)
(* preprocess (app.py): split the export at the timestamps, parse them,    *)
(* drop the rows whose date is NaT, split author and body, derive the      *)
(* calendar columns.                                                       *)
(***************************************************************************)
group_notification == <<"g","r","o","u","p","_","n","o","t","i","f","i","c","a","t","i","o","n">>

Overall == <<"O","v","e","r","a","l","l">>

\* a float column holds <<n>> for the number n and <<>> for NaN; a label column
\* holds the string "nan" for NaN
NaN == <<>>

Float(n) == <<n>>

NaNLabel == "nan"

\* df = pd.DataFrame({'user_message': messages, 'message_date': dates})
DataFrame(messages, dates) ==
    [i \in 1..Len(dates) |->
        [index |-> i - 1, user_message |-> messages[i], message_date |-> dates[i]]]

RawFrame(s) == DataFrame(SplitMessages(s), FindallDates(s))

\* df['date'] = parsed_dates
WithDate(rows) ==
    [i \in 1..Len(rows) |->
        [index |-> rows[i].index, user_message |-> rows[i].user_message,
         message_date |-> rows[i].message_date,
         date |-> ParseDate(rows[i].message_date)]]

\* st.error(...) for every date no format parses
Diagnostics(rows) ==
    LET bad == SelectSeq(rows, LAMBDA r : r.date = NaT)
    IN  [i \in 1..Len(bad) |-> bad[i].message_date]

\* (variant: the rows with a NaT date are kept)
DropnaKeepsNaT(rows) == rows

\* df.dropna(subset=['date'], inplace=True)
Dropna(rows) == SelectSeq(rows, LAMBDA r : r.date # NaT)

\* the dtype pandas infers for the 'date' column from parsed_dates: a list of
\* Timestamp/NaT gives datetime64, the empty list gives object
DateDtype(rows) == IF Len(rows) = 0 THEN "object" ELSE "datetime64[ns]"

\* the matches of '([\w\W]+?):\s' from p on: <<start, colon position>>;
\* the lazy group takes the first colon-white-space at least one character on
\* (no colon-white-space beyond p + 1 means no match at any later start)
RECURSIVE FindAuthors(_, _)
ScanAuthor(message, p, colons) ==
    IF colons = {} THEN <<>>
    ELSE <<<<p, Min(colons)>>>> \o FindAuthors(message, Min(colons) + 2)

FindAuthors(message, p) ==
    ScanAuthor(message, p, {q \in (p + 1)..(Len(message) - 1) :
                               message[q] = ":" /\ message[q + 1] \in Space})

\* the list re.split gives for the matches m: the text between the matches
\* alternating with the captured groups
SplitAt(message, m) ==
    [k \in 1..(2 * Len(m) + 1) |->
        IF k % 2 = 0
        THEN Slice(message, m[k \div 2][1], m[k \div 2][2] - 1)
        ELSE Slice(message,
                   IF k = 1 THEN 1 ELSE m[(k - 1) \div 2][2] + 2,
                   IF k = 2 * Len(m) + 1 THEN Len(message)
                   ELSE m[(k + 1) \div 2][1] - 1)]

\* entry = re.split('([\w\W]+?):\s', message)
SplitAuthor(message) == SplitAt(message, FindAuthors(message, 1))

\* " ".join(parts)
RECURSIVE JoinSpace(_)
JoinSpace(parts) ==
    IF Len(parts) = 0 THEN <<>>
    ELSE IF Len(parts) = 1 THEN parts[1]
    ELSE parts[1] \o <<" ">> \o JoinSpace(Tail(parts))

\* users.append(...) / messages_cleaned.append(...)
UserOf(entry) == IF Len(entry) > 1 THEN entry[2] ELSE group_notification

MessageOf(entry) ==
    IF Len(entry) > 1 THEN JoinSpace(SubSeq(entry, 3, Len(entry))) ELSE entry[1]

month_name == <<"January", "February", "March", "April", "May", "June", "July",
                "August", "September", "October", "November", "December">>

day_order == <<"Monday", "Tuesday", "Wednesday", "Thursday", "Friday", "Saturday",
               "Sunday">>

\* days since 1970-01-01 of a calendar date
DaysFromCivil(y, m, d) ==
    LET yy  == IF m <= 2 THEN y - 1 ELSE y
        era == yy \div 400
        yoe == yy - era * 400
        doy == (153 * (IF m > 2 THEN m - 3 ELSE m + 9) + 2) \div 5 + d - 1
        doe == yoe * 365 + yoe \div 4 - yoe \div 100 + doy
    IN  era * 146097 + doe - 719468

\* Timestamp.dayofweek, Monday = 0 (1970-01-01 was a Thursday)
DayOfWeek(dt) == (DaysFromCivil(dt.year, dt.month, dt.day) + 3) % 7

\* (variant: every hour labelled "<h>-<h+1>", no wrap-around branch)
PeriodNoWrap(hour) == ToString(hour) \o "-" \o ToString(hour + 1)

\* the period label of an hour (app.py, the loop that fills df['period'])
Period(hour) ==
    IF hour = 23 THEN ToString(hour) \o "-" \o "00"
    ELSE IF hour = 0 THEN "00" \o "-" \o ToString(hour + 1)
    ELSE ToString(hour) \o "-" \o ToString(hour + 1)

\* one row of the returned frame, entry being the split of its user_message
RowOf(r, entry) ==
    [index     |-> r.index,
     date      |-> r.date,
     user      |-> UserOf(entry),
     message   |-> MessageOf(entry),
     only_date |-> IF r.date = NaT THEN NaN ELSE <<r.date.year, r.date.month, r.date.day>>,
     year      |-> IF r.date = NaT THEN NaN ELSE r.date.year,
     month_num |-> IF r.date = NaT THEN NaN ELSE r.date.month,
     month     |-> IF r.date = NaT THEN NaNLabel ELSE month_name[r.date.month],
     day       |-> IF r.date = NaT THEN NaN ELSE r.date.day,
     day_name  |-> IF r.date = NaT THEN NaNLabel ELSE day_order[DayOfWeek(r.date) + 1],
     hour      |-> IF r.date = NaT THEN NaN ELSE r.date.hour,
     minute    |-> IF r.date = NaT THEN NaN ELSE r.date.minute,
     period    |-> IF r.date = NaT THEN "nan-nan" ELSE Period(r.date.hour)]

\* preprocess(data): the frame it returns, or the AttributeError that
\* df['date'].dt raises when the date column is not datetime-like
Rows(kept) == [i \in 1..Len(kept) |-> RowOf(kept[i], SplitAuthor(kept[i].user_message))]

Returned(dtype, parsed, rows) ==
    [raised      |-> dtype # "datetime64[ns]",
     diagnostics |-> Diagnostics(parsed),
     df          |-> IF dtype # "datetime64[ns]" THEN <<>> ELSE rows]

Parsed(parsed) == Returned(DateDtype(parsed), parsed, Rows(Dropna(parsed)))

preprocess(s) == Parsed(WithDate(RawFrame(s)))

(***************************************************************************)
(* helper.py: the aggregate functions over the frame.                      *)
(***************************************************************************)
\* df[df['user'] == selected_user] unless selected_user is 'Overall'
Filter(user, frame) ==
    IF user # Overall THEN SelectSeq(frame, LAMBDA r : r.user = user) ELSE frame

\* str.split(): the maximal runs of non-white-space characters
RECURSIVE SplitWords(_, _)
SplitWords(s, p) ==
    IF p > Len(s) THEN <<>>
    ELSE IF s[p] \in Space THEN SplitWords(s, p + 1)
    ELSE LET stops == {q \in p..Len(s) : s[q] \in Space}
             e     == IF stops = {} THEN Len(s) + 1 ELSE Min(stops)
         IN  <<Slice(s, p, e - 1)>> \o SplitWords(s, e)

split(s) == SplitWords(s, 1)

StartsWith(s, p, prefix) ==
    /\ p + Len(prefix) - 1 <= Len(s)
    /\ \A i \in 1..Len(prefix) : s[p + i - 1] = prefix[i]

\* Series.str.contains(marker, case=False)
Contains(s, marker) ==
    \E p \in 1..Len(s) : StartsWith(lower(s), p, lower(marker))

MediaOmitted == <<"<","M","e","d","i","a"," ","o","m","i","t","t","e","d",">">>

\* url_pattern = r'(https?://\S+|www\.\S+)': end of the match starting at p, 0 if none
UrlMatch(s, p) ==
    LET heads == {h \in {<<"h","t","t","p",":","/","/">>,
                         <<"h","t","t","p","s",":","/","/">>,
                         <<"w","w","w",".">>} : StartsWith(s, p, h)}
        body  == {p + Len(h) : h \in heads}
        ok    == {b \in body : b <= Len(s) /\ s[b] \notin Space}
        stops == {q \in Min(ok)..Len(s) : s[q] \in Space}
    IN  IF ok = {} THEN 0
        ELSE IF stops = {} THEN Len(s) + 1 ELSE Min(stops)

\* re.findall(url_pattern, message): <<start, end>> of each match from p on,
\* starts being the positions from p on where a match begins
RECURSIVE ScanUrls(_, _)
TakeUrl(s, starts, b, e) == <<<<b, e>>>> \o ScanUrls(s, {q \in starts : q >= e})

ScanUrls(s, starts) ==
    IF starts = {} THEN <<>>
    ELSE TakeUrl(s, starts, Min(starts), UrlMatch(s, Min(starts)))

FindUrls(s, p) == ScanUrls(s, {q \in p..Len(s) : UrlMatch(s, q) # 0})

\* re.sub(url_pattern, '', x): the text outside the matches m
RECURSIVE Outside(_, _, _)
Outside(s, m, p) ==
    IF Len(m) = 0 THEN Slice(s, p, Len(s))
    ELSE Slice(s, p, m[1][1] - 1) \o Outside(s, Tail(m), m[1][2])

RemoveUrls(s, p) == Outside(s, FindUrls(s, p), p)

RECURSIVE Sum(_)
Sum(nums) == IF Len(nums) = 0 THEN 0 ELSE nums[1] + Sum(Tail(nums))

\* (variant: the message must be the marker itself)
MediaCountEqual(rows) ==
    Len(SelectSeq(rows, LAMBDA r : lower(r.message) = lower(MediaOmitted)))

\* df[df['message'].str.contains('<Media omitted>', case=False, na=False)].shape[0]
MediaCount(rows) == Len(SelectSeq(rows, LAMBDA r : Contains(r.message, MediaOmitted)))

\* fetch_stats: <<num_messages, len(words), num_media_messages, len(links)>>
fetch_stats(user, frame) ==
    LET rows == Filter(user, frame)
    IN  <<Len(rows),
          Sum([i \in 1..Len(rows) |-> Len(split(rows[i].message))]),
          MediaCount(rows),
          Sum([i \in 1..Len(rows) |-> Len(FindUrls(rows[i].message, 1))])>>

\* Series.value_counts() of the day names, as a lookup
DayCount(rows, d) == Len(SelectSeq(rows, LAMBDA r : r.day_name = d))

\* (variant: the counted series is returned as it is, without reindex)
ValueCountsOnly(rows) ==
    SelectSeq([i \in 1..Len(day_order) |->
                  <<day_order[i], Float(DayCount(rows, day_order[i]))>>],
              LAMBDA e : e[2] # Float(0))

\* .reindex(day_order): one entry per label of day_order, NaN for a label the
\* counted series does not have
ReindexDays(rows) ==
    [i \in 1..Len(day_order) |->
        <<day_order[i],
          IF DayCount(rows, day_order[i]) > 0
          THEN Float(DayCount(rows, day_order[i])) ELSE NaN>>]

\* week_activity_map
week_activity_map(user, frame) == ReindexDays(Filter(user, frame))

\* activity_heatmap: pivot_table(count).fillna(0), then reindex(day_order);
\* the rows follow day_order, the columns are the periods of the filtered rows
PivotCell(rows, d, p) ==
    LET n == Len(SelectSeq(rows, LAMBDA r : r.day_name = d /\ r.period = p))
    IN  IF DayCount(rows, d) = 0 THEN NaN ELSE Float(n)

activity_heatmap(user, frame) ==
    LET rows == Filter(user, frame)
        cols == {rows[i].period : i \in 1..Len(rows)}
    IN  [index   |-> day_order,
         columns |-> cols,
         cell    |-> [d \in {day_order[i] : i \in 1..Len(day_order)}, p \in cols |->
                         PivotCell(rows, d, p)]]

\* the lines of stop_hinglish.txt as app.py writes it
stop_hinglish ==
    <<<<"a">>,
      <<"a","n">>,
      <<"a","n","d">>,
      <<"a","r","e">>,
      <<"a","s">>,
      <<"a","t">>,
      <<"b","e">>,
      <<"b","y">>,
      <<"f","o","r">>,
      <<"f","r","o","m">>,
      <<"h","a","d">>,
      <<"h","a","s">>,
      <<"h","a","v","e">>,
      <<"h","e">>,
      <<"h","e","r">>,
      <<"h","i","s">>,
      <<"i">>,
      <<"i","n">>,
      <<"i","s">>,
      <<"i","t">>,
      <<"k","a">>,
      <<"k","e">>,
      <<"k","i">>,
      <<"k","o">>,
      <<"m","a","i","n">>,
      <<"m","e">>,
      <<"m","e","i","n">>,
      <<"n","a">>,
      <<"n","a","h","i">>,
      <<"n","e">>,
      <<"p","a","r">>,
      <<"s","e">>,
      <<"t","h","e">>,
      <<"t","h","e","y">>,
      <<"t","h","i","s">>,
      <<"t","o">>,
      <<"t","u">>,
      <<"t","u","m">>,
      <<"w","a","s">>,
      <<"w","e">>,
      <<"w","e","r","e">>,
      <<"w","i","t","h">>,
      <<"y","e">>,
      <<"y","e","h">>>>

StopWords == {stop_hinglish[i] : i \in 1..Len(stop_hinglish)}

\* re.sub(r'[^\w\s]', '', message.lower())
Clean(message) == SelectSeq(lower(message), LAMBDA c : c \in WordChars \cup Space)

\* temp: no notifications, no media messages, URLs removed
TempMessages(user, frame) ==
    LET rows == SelectSeq(Filter(user, frame),
                          LAMBDA r : r.user # group_notification
                                     /\ ~Contains(r.message, MediaOmitted))
    IN  [i \in 1..Len(rows) |-> RemoveUrls(rows[i].message, 1)]

RECURSIVE Concat(_)
Concat(seqs) == IF Len(seqs) = 0 THEN <<>> ELSE seqs[1] \o Concat(Tail(seqs))

\* the words most_common_words counts, given the stop-word list
CountedWords(messages, stop_words) ==
    Concat([i \in 1..Len(messages) |->
               SelectSeq(split(Clean(messages[i])),
                         LAMBDA w : w \notin stop_words /\ Len(w) > 1)])

\* the distinct elements of a sequence in order of first occurrence
RECURSIVE Distinct(_)
Distinct(words) ==
    IF Len(words) = 0 THEN <<>>
    ELSE LET front == Distinct(SubSeq(words, 1, Len(words) - 1))
             w     == words[Len(words)]
         IN  IF \E i \in 1..Len(front) : front[i] = w THEN front ELSE Append(front, w)

Occurrences(words, w) == Len(SelectSeq(words, LAMBDA x : x = w))

\* the k-th entry in descending count, ties in order of first occurrence
RECURSIVE SortByCount(_)
SortByCount(pairs) ==
    IF Len(pairs) = 0 THEN <<>>
    ELSE LET best == Min({i \in 1..Len(pairs) :
                             \A j \in 1..Len(pairs) : pairs[j][2] <= pairs[i][2]})
         IN  <<pairs[best]>>
             \o SortByCount(SubSeq(pairs, 1, best - 1) \o SubSeq(pairs, best + 1, Len(pairs)))

TopK == 20

\* Counter(words).most_common(20)
MostCommon(words) ==
    LET d      == Distinct(words)
        sorted == SortByCount([i \in 1..Len(d) |-> <<d[i], Occurrences(words, d[i])>>])
    IN  SubSeq(sorted, 1, IF Len(sorted) < TopK THEN Len(sorted) ELSE TopK)

\* most_common_words: the (word, count) rows; the empty frame when open() raises
most_common_words(user, frame, file_exists) ==
    IF file_exists THEN MostCommon(CountedWords(TempMessages(user, frame), StopWords))
    ELSE <<>>

\* create_wordcloud.remove_stop_words: the message itself when open() raises
remove_stop_words(message, file_exists) ==
    IF file_exists
    THEN JoinSpace(SelectSeq(split(Clean(message)), LAMBDA w : w \notin StopWords))
    ELSE message

NoMeaningfulWords == <<"N","o"," ","m","e","a","n","i","n","g","f","u","l"," ","w","o","r","d","s"," ","f","o","u","n","d">>

\* create_wordcloud: the text handed to WordCloud.generate
create_wordcloud(user, frame, file_exists) ==
    LET temp      == TempMessages(user, frame)
        all_words == JoinSpace([i \in 1..Len(temp) |->
                                   remove_stop_words(temp[i], file_exists)])
    IN  IF split(all_words) # <<>> THEN all_words ELSE NoMeaningfulWords

\* user_list of app.py: the distinct users without the first 'group_notification',
\* sorted, behind "Overall"
StrLess(a, b) ==
    \E k \in 1..(Len(a) + 1) :
        /\ k <= Len(b)
        /\ \A i \in 1..(k - 1) : a[i] = b[i]
        /\ (k = Len(a) + 1 \/ Ord(a[k]) < Ord(b[k]))

RECURSIVE SortStr(_)
SortStr(names) ==
    IF Len(names) = 0 THEN <<>>
    ELSE LET least == Min({i \in 1..Len(names) :
                              \A j \in 1..Len(names) : ~StrLess(names[j], names[i])})
         IN  <<names[least]>>
             \o SortStr(SubSeq(names, 1, least - 1) \o SubSeq(names, least + 1, Len(names)))

UserList(frame) ==
    LET unique == Distinct([i \in 1..Len(frame) |-> frame[i].user])
    IN  <<Overall>> \o SortStr(SelectSeq(unique, LAMBDA u : u # group_notification))

(***************************************************************************)
(* The exports the model uploads: sequences of lines, each a timestamp     *)
(* (in one of the formats, or one no format parses) and a body, or a       *)
(* continuation line.                                                      *)
(***************************************************************************)
\* '12/08/23, 10:15 - Alice: hi\n'
Line1 ==
    <<"1","2","/","0","8","/","2","3",","," ","1","0",":","1","5"," ","-"," ","A","l","i","c","e",":"," ","h","i","\n">>

\* '1/8/23, 9:05 PM - Bob: <Media omitted>\n'
Line2 ==
    <<"1","/","8","/","2","3",","," ","9",":","0","5"," ","P","M"," ","-"," ","B","o","b",":"," ","<","M","e","d","i","a"," ","o","m","i","t","t","e","d",">","\n">>

\* '31/02/2023, 23:16 - Bob: lost\n'
Line3 ==
    <<"3","1","/","0","2","/","2","0","2","3",","," ","2","3",":","1","6"," ","-"," ","B","o","b",":"," ","l","o","s","t","\n">>

\* '14/08/2023, 0:05 - Overall: see <MEDIA OMITTED> www.x.com\n'
Line4 ==
    <<"1","4","/","0","8","/","2","0","2","3",","," ","0",":","0","5"," ","-"," ","O","v","e","r","a","l","l",":"," ","s","e","e"," ","<","M","E","D","I","A"," ","O","M","I","T","T","E","D",">"," ","w","w","w",".","x",".","c","o","m","\n">>

\* '12/08/23, 23:59 - Alice: Note: the cat 1'
Line5 ==
    <<"1","2","/","0","8","/","2","3",","," ","2","3",":","5","9"," ","-"," ","A","l","i","c","e",":"," ","N","o","t","e",":"," ","t","h","e"," ","c","a","t"," ","1">>

\* '13/08/23, 10:20 - Bob left\n'
Line6 ==
    <<"1","3","/","0","8","/","2","3",","," ","1","0",":","2","0"," ","-"," ","B","o","b"," ","l","e","f","t","\n">>

\* 'ok\n'
Line7 ==
    <<"o","k","\n">>


Lines == {Line1, Line2, Line3, Line4, Line5, Line6, Line7}

\* the example export of the specification, line by line
\* '12/08/23, 10:15 - Alice: Hello!\n'
Example1 ==
    <<"1","2","/","0","8","/","2","3",","," ","1","0",":","1","5"," ","-"," ","A","l","i","c","e",":"," ","H","e","l","l","o","!","\n">>

\* '12/08/23, 10:16 - Bob: <Media omitted>\n'
Example2 ==
    <<"1","2","/","0","8","/","2","3",","," ","1","0",":","1","6"," ","-"," ","B","o","b",":"," ","<","M","e","d","i","a"," ","o","m","i","t","t","e","d",">","\n">>

\* '12/08/23, 10:17 - Alice: check www.x.com'
Example3 ==
    <<"1","2","/","0","8","/","2","3",","," ","1","0",":","1","7"," ","-"," ","A","l","i","c","e",":"," ","c","h","e","c","k"," ","w","w","w",".","x",".","c","o","m">>


ExampleLines == {Example1, Example2, Example3}

ExampleExport == Example1 \o Example2 \o Example3

\* the lines of the exports that are concatenated
\* '1/08/23, 10:15 - Alice: room 1'
Part1 ==
    <<"1","/","0","8","/","2","3",","," ","1","0",":","1","5"," ","-"," ","A","l","i","c","e",":"," ","r","o","o","m"," ","1">>

\* '2/08/23, 9:05 - Bob: hi\n'
Part2 ==
    <<"2","/","0","8","/","2","3",","," ","9",":","0","5"," ","-"," ","B","o","b",":"," ","h","i","\n">>

\* '12/08/23, 9:05 PM - Bob left'
Part3 ==
    <<"1","2","/","0","8","/","2","3",","," ","9",":","0","5"," ","P","M"," ","-"," ","B","o","b"," ","l","e","f","t">>

\* '31/02/23, 9:05 - x: 2\n'
Part4 ==
    <<"3","1","/","0","2","/","2","3",","," ","9",":","0","5"," ","-"," ","x",":"," ","2","\n">>


PartLines == {Part1, Part2, Part3, Part4}

\* one message at an hour of the day, as a 24-hour and as a 12-hour export
\* writes it: '1/8/23, 0:30 - a: b\n' .. '1/8/23, 23:30 - a: b\n' and
\* '1/8/23, 12:30 AM - a: b\n' .. '1/8/23, 11:30 PM - a: b\n'
DigitChars == <<"0","1","2","3","4","5","6","7","8","9">>

Decimal(n) ==
    IF n < 10 THEN <<DigitChars[n + 1]>>
    ELSE <<DigitChars[(n \div 10) + 1], DigitChars[(n % 10) + 1]>>

HourLine24(h) ==
    <<"1","/","8","/","2","3",","," ">> \o Decimal(h)
        \o <<":","3","0"," ","-"," ","a",":"," ","b","\n">>

HourLine12(h) ==
    <<"1","/","8","/","2","3",","," ">>
        \o Decimal(IF h % 12 = 0 THEN 12 ELSE h % 12)
        \o <<":","3","0"," ">> \o (IF h < 12 THEN <<"A">> ELSE <<"P">>)
        \o <<"M"," ","-"," ","a",":"," ","b","\n">>

\* the hours around midnight and noon, where the 12-hour clock turns
TurnHours == {0, 1, 11, 12, 13, 23}

HourLines == {HourLine24(h) : h \in 0..23} \cup {HourLine12(h) : h \in TurnHours}

MaxLines == 3

MaxPartLines == 2

MaxHourLines == 2

\* the texts of at most n lines of V
Exports(V, n) == {Concat(ls) : ls \in UNION {[1..k -> V] : k \in 0..n}}

EmptyHeatmap == [index |-> <<>>, columns |-> {}, cell |-> <<>>]

\* the state before an upload: stop_hinglish.txt exists
\* (ensure_stop_words_file_exists), nothing is parsed or computed
Blank ==
    /\ stop_file = TRUE
    /\ failed = FALSE
    /\ df = <<>>
    /\ diagnostics = <<>>
    /\ user_list = <<>>
    /\ selected_user = Overall
    /\ stats = <<0, 0, 0, 0>>
    /\ busy_day = <<>>
    /\ user_heatmap = EmptyHeatmap
    /\ wc_text = <<>>
    /\ most_common_df = <<>>
    /\ dfA = <<>>
    /\ dfB = <<>>
    /\ dfAB = <<>>

Init ==
    /\ data \in Exports(Lines, MaxLines)
    /\ pc = "uploaded"
    /\ partA = <<>>
    /\ partB = <<>>
    /\ Blank

InitExample ==
    /\ data \in Exports(ExampleLines, MaxLines)
    /\ pc = "uploaded"
    /\ partA = <<>>
    /\ partB = <<>>
    /\ Blank

analysis == <<stats, busy_day, user_heatmap, wc_text, most_common_df>>

parts == <<partA, partB, dfA, dfB, dfAB>>

\* app.py: df = preprocess(data) and the user list; an exception ends the run
\* in the except branch
Loaded(out) ==
    /\ failed' = out.raised
    /\ diagnostics' = out.diagnostics
    /\ df' = out.df
    /\ user_list' = IF out.raised THEN <<>> ELSE UserList(out.df)
    /\ pc' = IF out.raised THEN "error" ELSE "ready"

Preprocess ==
    /\ pc = "uploaded"
    /\ Loaded(preprocess(data))
    /\ UNCHANGED <<data, stop_file, selected_user, analysis, parts>>

\* st.sidebar.selectbox("Show analysis for", user_list)
SelectUser ==
    /\ pc = "ready"
    /\ \E i \in 1..Len(user_list) : selected_user' = user_list[i]
    /\ UNCHANGED <<data, stop_file, pc, failed, df, diagnostics, user_list, analysis, parts>>

\* stop_hinglish.txt disappears after the start-up check
StopFileRemoved ==
    /\ pc = "ready"
    /\ stop_file = TRUE
    /\ stop_file' = FALSE
    /\ UNCHANGED <<data, pc, failed, df, diagnostics, user_list, selected_user, analysis, parts>>

\* "Show Analysis": helper.fetch_stats(selected_user, df)
FetchStats ==
    /\ pc = "ready"
    /\ stats' = fetch_stats(selected_user, df)
    /\ pc' = "stats"
    /\ UNCHANGED <<data, stop_file, failed, df, diagnostics, user_list, selected_user,
                   busy_day, user_heatmap, wc_text, most_common_df, parts>>

\* helper.week_activity_map(selected_user, df)
WeekActivityMap ==
    /\ pc = "stats"
    /\ busy_day' = week_activity_map(selected_user, df)
    /\ pc' = "week"
    /\ UNCHANGED <<data, stop_file, failed, df, diagnostics, user_list, selected_user,
                   stats, user_heatmap, wc_text, most_common_df, parts>>

\* helper.activity_heatmap(selected_user, df)
ActivityHeatmap ==
    /\ pc = "week"
    /\ user_heatmap' = activity_heatmap(selected_user, df)
    /\ pc' = "heatmap"
    /\ UNCHANGED <<data, stop_file, failed, df, diagnostics, user_list, selected_user,
                   stats, busy_day, wc_text, most_common_df, parts>>

\* helper.create_wordcloud(selected_user, df)
CreateWordcloud ==
    /\ pc = "heatmap"
    /\ wc_text' = create_wordcloud(selected_user, df, stop_file)
    /\ pc' = "wordcloud"
    /\ UNCHANGED <<data, stop_file, failed, df, diagnostics, user_list, selected_user,
                   stats, busy_day, user_heatmap, most_common_df, parts>>

\* helper.most_common_words(selected_user, df)
MostCommonWords ==
    /\ pc = "wordcloud"
    /\ most_common_df' = most_common_words(selected_user, df, stop_file)
    /\ pc' = "done"
    /\ UNCHANGED <<data, stop_file, failed, df, diagnostics, user_list, selected_user,
                   stats, busy_day, user_heatmap, wc_text, parts>>

Next ==
    \/ Preprocess
    \/ SelectUser
    \/ StopFileRemoved
    \/ FetchStats
    \/ WeekActivityMap
    \/ ActivityHeatmap
    \/ CreateWordcloud
    \/ MostCommonWords

Spec == Init /\ [][Next]_vars

SpecExample == InitExample /\ [][Next]_vars

(***************************************************************************)
(* preprocess as a function of its input: two exports and their            *)
(* concatenation, each parsed on its own.                                  *)
(***************************************************************************)
InitConcat ==
    /\ partA \in Exports(PartLines, MaxPartLines)
    /\ partB \in Exports(PartLines, MaxPartLines)
    /\ data = partA \o partB
    /\ pc = "partA"
    /\ Blank

PreprocessA ==
    /\ pc = "partA"
    /\ dfA' = preprocess(partA).df
    /\ pc' = "partB"
    /\ UNCHANGED <<data, stop_file, failed, df, diagnostics, user_list, selected_user,
                   analysis, partA, partB, dfB, dfAB>>

PreprocessB ==
    /\ pc = "partB"
    /\ dfB' = preprocess(partB).df
    /\ pc' = "whole"
    /\ UNCHANGED <<data, stop_file, failed, df, diagnostics, user_list, selected_user,
                   analysis, partA, partB, dfA, dfAB>>

PreprocessAB ==
    /\ pc = "whole"
    /\ dfAB' = preprocess(data).df
    /\ pc' = "compared"
    /\ UNCHANGED <<data, stop_file, failed, df, diagnostics, user_list, selected_user,
                   analysis, partA, partB, dfA, dfB>>

NextConcat == PreprocessA \/ PreprocessB \/ PreprocessAB

SpecConcat == InitConcat /\ [][NextConcat]_vars

(***************************************************************************)
(* preprocess of exports whose messages run through the hours of the day.  *)
(***************************************************************************)
InitHours ==
    /\ data \in Exports(HourLines, MaxHourLines)
    /\ pc = "uploaded"
    /\ partA = <<>>
    /\ partB = <<>>
    /\ Blank

NextHours == Preprocess

SpecHours == InitHours /\ [][NextHours]_vars

(***************************************************************************)
(* Properties of preprocess.                                               *)
(***************************************************************************)
\* preprocess has returned or raised (the frame is not touched afterwards)
Preprocessed == pc \in {"ready", "error"} /\ selected_user = Overall /\ stop_file

\* the 1-based positions of the dates some accepted format parses
Parsable(dates) ==
    {i \in 1..Len(dates) : \E k \in 1..Len(Formats) : Strptime(dates[i], Formats[k]) # NaT}

EmitsParsable(frame, dates, chunks) ==
    /\ \A i \in 1..Len(frame) : frame[i].date # NaT
    /\ {frame[i].index + 1 : i \in 1..Len(frame)} = Parsable(dates)
    /\ \A i, j \in 1..Len(frame) : i < j => frame[i].index < frame[j].index
    /\ \A i \in 1..Len(frame) :
          /\ frame[i].date = ParseDate(dates[frame[i].index + 1])
          /\ frame[i].user = UserOf(SplitAuthor(chunks[frame[i].index + 1]))
          /\ frame[i].message = MessageOf(SplitAuthor(chunks[frame[i].index + 1]))
    /\ Len(frame) <= Len(dates)

\* C1: after preprocess the frame holds exactly the chunks whose timestamp
\* some accepted format parses, in source order: no row has a NaT date, the
\* rows are the parsable chunks and no others, row positions increase, every
\* row's author and text are those of the chunk behind its own timestamp, and
\* there are at most as many rows as timestamp matches.
C1_EmitsParsableChunks ==
    Preprocessed => EmitsParsable(df, FindallDates(data), SplitMessages(data))

\* a chunk was dropped in front of a kept one, and two chunks were kept
C1_Witness ==
    /\ pc = "ready"
    /\ Len(df) >= 2
    /\ Len(diagnostics) >= 1
    /\ df[1].index > 0

\* the first colon-white-space of a chunk, 0 when it has none
FirstBoundary(chunk) ==
    IF \E q \in 1..(Len(chunk) - 1) : chunk[q] = ":" /\ chunk[q + 1] \in Space
    THEN Min({q \in 1..(Len(chunk) - 1) : chunk[q] = ":" /\ chunk[q + 1] \in Space})
    ELSE 0

FirstBoundarySplit(row, chunk, b) ==
    IF b # 0
    THEN /\ row.user = Slice(chunk, 1, b - 1)
         /\ row.message = Slice(chunk, b + 2, Len(chunk))
    ELSE /\ row.user = group_notification
         /\ row.message = chunk

FirstBoundarySplits(frame, chunks) ==
    \A i \in 1..Len(frame) :
        FirstBoundarySplit(frame[i], chunks[frame[i].index + 1],
                           FirstBoundary(chunks[frame[i].index + 1]))

\* C2: for every chunk with a colon followed by white space the author is the
\* text before the first such boundary and the text is the whole remainder
\* after it, character for character; a chunk without one is a
\* group_notification whose text is the whole chunk.
C2_FirstBoundarySplit ==
    Preprocessed => FirstBoundarySplits(df, SplitMessages(data))

\* C3: the empty upload gives an empty frame without raising, and the
\* aggregate functions give their empty results on it.
C3_EmptyUpload ==
    (data = <<>> /\ pc # "uploaded") =>
        /\ ~failed
        /\ pc # "error"
        /\ df = <<>>
        /\ (pc = "done" =>
               /\ stats = <<0, 0, 0, 0>>
               /\ most_common_df = <<>>
               /\ user_heatmap.columns = {})

(***************************************************************************)
(* Properties of fetch_stats.                                              *)
(***************************************************************************)
\* the distinct authors of the frame other than group_notification
Authors == {df[i].user : i \in 1..Len(df)} \ {group_notification}

RECURSIVE SumMessages(_)
SumMessages(S) ==
    IF S = {} THEN 0
    ELSE LET a == CHOOSE x \in S : TRUE
         IN  fetch_stats(a, df)[1] + SumMessages(S \ {a})

Notifications == Len(SelectSeq(df, LAMBDA r : r.user = group_notification))

\* C4: for every author of the frame, each count of fetch_stats for that
\* author is at most the unfiltered count, and the per-author message counts
\* add up to the unfiltered total less the group_notification rows.
FilteredCounts(unfiltered) ==
    /\ \A k \in 1..4 : stats[k] <= unfiltered[k]
    /\ \A a \in Authors : \A k \in 1..4 : fetch_stats(a, df)[k] <= unfiltered[k]
    /\ SumMessages(Authors) = unfiltered[1] - Notifications

C4_FilteredCounts == pc = "stats" => FilteredCounts(fetch_stats(Overall, df))

ExampleParsed == data = ExampleExport /\ pc = "stats" /\ selected_user = Overall

\* C6 as stated: the example export gives 3 records and fetch_stats gives
\* messages=3, words=4, media=1, links=1.
C6_ExampleAsStated == ExampleParsed => (Len(df) = 3 /\ stats = <<3, 4, 1, 1>>)

\* the white-space separated tokens of all messages of the frame
Tokens(frame) == Concat([i \in 1..Len(frame) |-> split(frame[i].message)])

\* C6: the example export gives 3 records and fetch_stats("Overall") gives
\* messages=3, words=5, media=1, links=1, the word count being the number of
\* white-space separated tokens over all message texts.
C6_Example ==
    ExampleParsed =>
        /\ Len(df) = 3
        /\ stats = <<3, 5, 1, 1>>
        /\ stats[2] = Len(Tokens(df))

C6_Witness == ExampleParsed /\ Len(df) = 3

\* the text is the marker and nothing else, ignoring case and the white space
\* around it
IsMediaMarker(message) == split(lower(message)) = split(lower(MediaOmitted))

\* C7: the media count is the number of filtered records whose text is the
\* media-omitted marker, compared without case; a record whose text has the
\* marker among other words is not counted.
C7_MediaIsExactMarker ==
    pc = "stats" =>
        stats[3] = Len(SelectSeq(Filter(selected_user, df),
                                 LAMBDA r : IsMediaMarker(r.message)))

(***************************************************************************)
(* Properties of the activity maps.                                        *)
(***************************************************************************)
Weekdays == <<"Monday", "Tuesday", "Wednesday", "Thursday", "Friday", "Saturday", "Sunday">>

\* the rows of the frame the selected filter keeps
Selected == {i \in 1..Len(df) : selected_user = Overall \/ df[i].user = selected_user}

OnDay(d) == Cardinality({i \in Selected : df[i].day_name = d})

InCell(d, p) == Cardinality({i \in Selected : df[i].day_name = d /\ df[i].period = p})

\* C8: the heatmap has the seven weekdays, Monday first, as rows and the hour
\* buckets of the filtered records as columns; every cell holds the number of
\* filtered records of that weekday and bucket, 0 where there is none.
C8_HeatmapCounts ==
    pc = "heatmap" =>
        /\ user_heatmap.index = Weekdays
        /\ user_heatmap.columns = {df[i].period : i \in Selected}
        /\ \A k \in 1..7 : \A p \in user_heatmap.columns :
              user_heatmap.cell[Weekdays[k], p] = Float(InCell(Weekdays[k], p))

\* C10: week_activity_map has exactly 7 entries, keyed Monday to Sunday in
\* that order whatever weekdays the filtered records have, and each weekday
\* that occurs carries the number of filtered records on it.
C10_SevenWeekdays ==
    pc = "week" =>
        /\ Len(busy_day) = 7
        /\ \A k \in 1..7 : busy_day[k][1] = Weekdays[k]
        /\ \A k \in 1..Len(busy_day) :
              OnDay(busy_day[k][1]) > 0 => busy_day[k][2] = Float(OnDay(busy_day[k][1]))

\* one author is selected, a weekday occurs twice and another not at all
C10_Witness ==
    /\ pc = "week"
    /\ selected_user # Overall
    /\ \E k \in 1..7 : OnDay(Weekdays[k]) = 2
    /\ \E k \in 1..7 : OnDay(Weekdays[k]) = 0 /\ busy_day[k][2] = NaN

(***************************************************************************)
(* The word functions without the stop-word file.                          *)
(***************************************************************************)
\* C9: with stop_hinglish.txt unavailable, most_common_words returns the top
\* 20 word counts of the filtered messages with no stop word removed, and
\* create_wordcloud builds its text from the filtered messages.
C9_NoStopFileFallback ==
    (pc = "done" /\ ~stop_file) =>
        /\ most_common_df = MostCommon(CountedWords(TempMessages(selected_user, df), {}))
        /\ wc_text \in {JoinSpace(TempMessages(selected_user, df)), NoMeaningfulWords}

(***************************************************************************)
(* preprocess of a concatenation.                                          *)
(***************************************************************************)
\* the export starts with a timestamp match
ValidExport(s) == TimestampMatch(s, 1) # 0

\* the timestamps, authors and texts of a frame
Records(frame) ==
    [i \in 1..Len(frame) |->
        <<frame[i].date, frame[i].user, frame[i].message>>]

Compared == pc = "compared" /\ ValidExport(partA) /\ ValidExport(partB)

\* C5 as stated: for any two valid exports A and B, preprocess(A + B) is
\* preprocess(A) followed by preprocess(B).
C5_ConcatAsStated == Compared => Records(dfAB) = Records(dfA) \o Records(dfB)

\* C5: for any two valid exports A and B such that A does not end with a
\* digit, preprocess(A + B) is preprocess(A) followed by preprocess(B): same
\* timestamps, authors and texts in the same order.
C5_Concat ==
    (Compared /\ partA[Len(partA)] \notin Digits) =>
        Records(dfAB) = Records(dfA) \o Records(dfB)

\* both exports yield records, A ends with a letter and B starts with a
\* one-digit day
C5_Witness ==
    /\ Compared
    /\ partA[Len(partA)] \in Letters
    /\ partB[2] = "/"
    /\ Len(dfA) >= 1
    /\ Len(dfB) >= 1

(***************************************************************************)
(* The period label of a record.                                           *)
(***************************************************************************)
\* the label of each hour 0..23 as the claim writes it
HourBuckets ==
    <<"00-1", "1-2", "2-3", "3-4", "4-5", "5-6", "6-7", "7-8", "8-9", "9-10",
      "10-11", "11-12", "12-13", "13-14", "14-15", "15-16", "16-17", "17-18",
      "18-19", "19-20", "20-21", "21-22", "22-23", "23-00">>

\* C11: the period label of every record is determined by its hour alone:
\* "23-00" at hour 23, "00-1" at hour 0, and the decimal h, a hyphen and the
\* decimal h+1 at every other hour h; no other hour of the day has the label.
C11_HourBuckets ==
    pc = "ready" =>
        \A i \in 1..Len(df) :
            /\ df[i].hour = df[i].date.hour
            /\ df[i].hour \in 0..23
            /\ df[i].period = HourBuckets[df[i].hour + 1]
            /\ \A h \in 0..23 : h # df[i].hour => HourBuckets[h + 1] # df[i].period

\* a message at 23:30 followed by one at 12:30 AM: both wrap-around labels
C11_Witness ==
    /\ pc = "ready"
    /\ Len(df) = 2
    /\ data = HourLine24(23) \o HourLine12(0)
    /\ df[1].hour = 23 /\ df[1].period = "23-00"
    /\ df[2].hour = 0 /\ df[2].period = "00-1"

====
